---- MODULE Spec2Model ----
(***************************************************************************)
(* A model of display-lib: the Rgba colour type (src/src/rgba.rs) and the  *)
(* Canvas drawing surface with its ImageHandle cache (src/src/canvas.rs).  *)
(*                                                                         *)
(* Four specifications share the module:                                   *)
(*   SpecColor   Rgba::blend and TryFrom<Chars> for Rgba on drawn inputs   *)
(*   SpecDraw    one draw call on a freshly constructed Canvas, the call's *)
(*               arguments and effect recorded                             *)
(*   SpecCanvas  sequences of fill / draw calls on a Canvas                *)
(*   SpecHandle  ImageHandle load / unload / image_ref / to_image          *)
(***************************************************************************)
EXTENDS Integers, Sequences, FiniteSets, TLC

VARIABLES
    colorRes,   \* the last Rgba computation: its inputs and its result
    width,      \* Canvas.width
    height,     \* Canvas.height
    buffer,     \* Canvas.buffer: offset -> u32 cell
    call,       \* the last Canvas call: its arguments, effect and result
    ops,        \* the number of Canvas calls made so far
    given,      \* history: the width and height handed to Canvas::new
    handle,     \* the ImageHandle value
    path0,      \* history: the path the ImageHandle was created with
    decoded,    \* history: what the decoder delivered to the last successful load
    loadedOk,   \* history: a load has succeeded and no unload has followed
    handleRes   \* the last ImageHandle call, the handle before it and what it returned

vars == <<colorRes, width, height, buffer, call, ops, given,
          handle, path0, decoded, loadedOk, handleRes>>

colorVars == <<colorRes>>
canvasVars == <<width, height, buffer, call, ops, given>>
handleVars == <<handle, path0, decoded, loadedOk, handleRes>>

(***************************************************************************)
(* Option<T>: None is the empty sequence, Some(v) the one-element one.     *)
(***************************************************************************)
None == <<>>
Some(v) == <<v>>
IsSome(o) == o # <<>>
Unwrap(o) == o[1]

(***************************************************************************)
(* rgba.rs: the Color channel selectors are indices into Rgba.value.       *)
(***************************************************************************)
Red == 2

Green == 1

Blue == 0

Alpha == 3

\* union Rgba { value: [u8; 4], number: u32 }: the value is kept as its four
\* bytes, value[0] first.  Rgba::new stores [blue, green, red, alpha].
new(red, green, blue, alpha) == <<blue, green, red, alpha>>

new_opaque(red, green, blue) == <<blue, green, red, 255>>

BLACK == new_opaque(0, 0, 0)
WHITE == new_opaque(255, 255, 255)

\* Rgba::default()
Default == new(0, 0, 0, 255)

\* Index<Color> / Index<usize> for Rgba: self.value[index]
Index(c, index) == c[index + 1]

\* IndexMut: self.value[index] = v
IndexSet(c, index, v) == [c EXCEPT ![index + 1] = v]

\* From<Rgba> for u32: the union read through `number`.  The 32-bit word is
\* kept as its two 16-bit halves <<low, high>> (least significant byte first).
RgbaToU32(c) == <<c[1] + 256 * c[2], c[3] + 256 * c[4]>>

\* fn blend_color(a, b, t): u16 arithmetic, the sum never exceeds 255*255 + 1.
blend_color(a, b, t) == ((((b * t) + (a * (255 - t)) + 1) % 65536) \div 256) % 256

\* Rgba::blend: for c in [Red, Blue, Green] { self[c] = blend_color(self[c], rhs[c], proportion) }
blend(self, rhs, proportion) ==
    LET s1 == IndexSet(self, Red, blend_color(Index(self, Red), Index(rhs, Red), proportion))
        s2 == IndexSet(s1, Blue, blend_color(Index(s1, Blue), Index(rhs, Blue), proportion))
        s3 == IndexSet(s2, Green, blend_color(Index(s2, Green), Index(rhs, Green), proportion))
    IN  s3

\* fn hex_code_to_u4(c: char) -> Option<u8>
hex_code_to_u4(c) ==
    CASE c = "0" -> Some(0)
      [] c = "1" -> Some(1)
      [] c = "2" -> Some(2)
      [] c = "3" -> Some(3)
      [] c = "4" -> Some(4)
      [] c = "5" -> Some(5)
      [] c = "6" -> Some(6)
      [] c = "7" -> Some(7)
      [] c = "8" -> Some(8)
      [] c = "9" -> Some(9)
      [] c = "A" \/ c = "a" -> Some(10)
      [] c = "B" \/ c = "b" -> Some(11)
      [] c = "C" \/ c = "c" -> Some(12)
      [] c = "D" \/ c = "d" -> Some(13)
      [] c = "E" \/ c = "e" -> Some(14)
      [] c = "F" \/ c = "f" -> Some(15)
      [] OTHER -> None

\* fn hex_code_to_u8(chars: [char; 2]) -> Option<u8>, `?` on either digit
hex_code_to_u8(chars) ==
    LET hi == hex_code_to_u4(chars[1])
        lo == hex_code_to_u4(chars[2])
    IN  IF IsSome(hi) /\ IsSome(lo) THEN Some(Unwrap(hi) * 16 + Unwrap(lo)) ELSE None

\* Chars::next() at position pos (0-based) of the character sequence
CharsNext(value, pos) == IF pos < Len(value) THEN Some(value[pos + 1]) ELSE None

Err(e) == [ok |-> FALSE, err |-> e]
Ok(v) == [ok |-> TRUE, val |-> v]

\* The body of `for i in 0..4` in try_from, from iteration i with the iterator
\* at pos and the bytes gathered in out; the value is try_from's result.
RECURSIVE try_from_loop(_, _, _, _)
try_from_loop(value, i, pos, out) ==
    IF i = 4
    THEN Ok(new(out[1], out[2], out[3], out[4]))
    ELSE LET left == CharsNext(value, pos)
             right == CharsNext(value, pos + 1)
         IN  IF IsSome(left) /\ IsSome(right)
             THEN LET n == hex_code_to_u8(<<Unwrap(left), Unwrap(right)>>)
                  IN  IF IsSome(n)
                      THEN try_from_loop(value, i + 1, pos + 2, [out EXCEPT ![i + 1] = Unwrap(n)])
                      ELSE IF i # 3
                      THEN Err([kind |-> "InvalidStr", s |-> <<Unwrap(left), Unwrap(right)>>])
                      ELSE try_from_loop(value, i + 1, pos + 2, [out EXCEPT ![4] = 255])
             ELSE IF i # 3
             THEN Err([kind |-> "InsufficientLength",
                       len |-> IF IsSome(left) THEN i * 2 + 1 ELSE i * 2])
             ELSE try_from_loop(value, i + 1, pos + 2, [out EXCEPT ![4] = 255])

\* impl TryFrom<Chars> for Rgba
try_from(value) == try_from_loop(value, 0, 0, <<0, 0, 0, 0>>)

(***************************************************************************)
(* canvas.rs: the drawing loops.  A loop state st holds the cursor         *)
(* (gx, gy), the buffer, the set of offsets the buffer was indexed with,   *)
(* whether an index was out of range (Rust panics there and the call       *)
(* ends), and the ImageCompletion so far.                                  *)
(***************************************************************************)
LoopStart(buf, x, y) ==
    [gx |-> x, gy |-> y, buffer |-> buf, writes |-> {}, panic |-> FALSE, comp |-> "Complete"]

\* self.buffer[idx as usize] = v
BufStore(st, idx, v) ==
    IF idx \in DOMAIN st.buffer
    THEN [st EXCEPT !.buffer[idx] = v, !.writes = @ \cup {idx}]
    ELSE [st EXCEPT !.panic = TRUE, !.writes = @ \cup {idx}]

\* A draw_image guard that forgets the lower bounds.
DrawImageOnNoLowerBound(gx, gy, wx, wy) == gx < wx /\ gy < wy

\* canvas.rs:62  if gx < wx && gy < wy && gx >= 0 && gy >= 0
DrawImageOn(gx, gy, wx, wy) == gx < wx /\ gy < wy /\ gx >= 0 /\ gy >= 0

\* A row end taken one column late.
DrawImageRowEndLate(gx, iw, x) == gx = iw + x

\* canvas.rs:66  if gx == image.get_width() as isize + x - 1
DrawImageRowEnd(gx, iw, x) == gx = iw + x - 1

\* The cursor step closing every loop body: back to x on the next row at a
\* row's end, one to the right otherwise.
Advance(st, rowEnd, x) ==
    IF rowEnd THEN [st EXCEPT !.gx = x, !.gy = @ + 1] ELSE [st EXCEPT !.gx = @ + 1]

\* draw_image's `for counter in 0..image.get_bytes().len()`
RECURSIVE DrawImageLoop(_, _, _, _, _, _, _)
DrawImageLoop(counter, st, x, wx, wy, bytes, iw) ==
    IF counter >= Len(bytes) \/ st.panic
    THEN st
    ELSE LET drawn == IF DrawImageOn(st.gx, st.gy, wx, wy)
                      THEN BufStore(st, st.gy * wx + st.gx, RgbaToU32(bytes[counter + 1]))
                      ELSE st
         IN  IF drawn.panic
             THEN drawn
             ELSE DrawImageLoop(counter + 1, Advance(drawn, DrawImageRowEnd(st.gx, iw, x), x),
                                x, wx, wy, bytes, iw)

\* Canvas::draw_image(x, y, image) on a canvas w wide, h high, with buffer buf
draw_image(buf, w, h, x, y, image) ==
    DrawImageLoop(0, LoopStart(buf, x, y), x, w, h, image.bytes, image.width)

\* canvas.rs:92  if wx < x || wy < y { return ImageCompletion::None; }
MonoReject(wx, wy, x, y) == wx < x \/ wy < y

\* canvas.rs:109  match bytes[counter] { 0 => black, 255 => white, b => black.blend(white, b) }
MonoColor(b, black, white) ==
    IF b = 0 THEN black ELSE IF b = 255 THEN white ELSE blend(black, white, b)

\* draw_monochrome_image's `for counter in 0..image.get_bytes().len()`
RECURSIVE DrawMonoLoop(_, _, _, _, _, _, _, _, _)
DrawMonoLoop(counter, st, x, wx, wy, bytes, iw, black, white) ==
    IF counter >= Len(bytes) \/ st.panic
    THEN st
    ELSE LET drawn ==
                 IF st.gx >= 0 /\ st.gy >= 0
                 THEN IF st.gx < wx /\ st.gy < wy
                      THEN BufStore(st, st.gy * wx + st.gx,
                                    RgbaToU32(MonoColor(bytes[counter + 1], black, white)))
                      ELSE [st EXCEPT !.comp = "Partial"]
                 ELSE st
         IN  IF drawn.panic
             THEN drawn
             ELSE DrawMonoLoop(counter + 1, Advance(drawn, st.gx = iw + x - 1, x),
                               x, wx, wy, bytes, iw, black, white)

\* Canvas::draw_monochrome_image(x, y, image, black, white)
draw_monochrome_image(buf, w, h, x, y, image, black, white) ==
    IF MonoReject(w, h, x, y)
    THEN [LoopStart(buf, x, y) EXCEPT !.comp = "None"]
    ELSE DrawMonoLoop(0, LoopStart(buf, x, y), x, w, h, image.bytes, image.width, black, white)

\* draw_rectangle's `for _ in 0..(rect_width * rect_height)`: n counts the
\* iterations left.
RECURSIVE DrawRectLoop(_, _, _, _, _, _, _)
DrawRectLoop(n, st, x, wx, wy, rect_width, color) ==
    IF n <= 0 \/ st.panic
    THEN st
    ELSE LET drawn == IF st.gx >= 0 /\ st.gy >= 0 /\ st.gx < wx /\ st.gy < wy
                      THEN BufStore(st, st.gy * wx + st.gx, RgbaToU32(color))
                      ELSE st
         IN  IF drawn.panic
             THEN drawn
             ELSE DrawRectLoop(n - 1, Advance(drawn, st.gx = rect_width + x - 1, x),
                               x, wx, wy, rect_width, color)

\* Canvas::draw_rectangle(x, y, rect_width, rect_height, color)
draw_rectangle(buf, w, h, x, y, rect_width, rect_height, color) ==
    DrawRectLoop(rect_width * rect_height, LoopStart(buf, x, y), x, w, h, rect_width, color)

\* Canvas::fill(color): self.buffer.fill(color.into())
fill(buf, color) ==
    [LoopStart(buf, 0, 0) EXCEPT !.buffer = [i \in DOMAIN buf |-> RgbaToU32(color)],
                                 !.writes = DOMAIN buf]

(***************************************************************************)
(* canvas.rs: ImageHandle.                                                 *)
(***************************************************************************)
Handle(path) == [tag |-> "Handle", path |-> path]
Image(path, vector, w, h) ==
    [tag |-> "Image", path |-> path, vector |-> vector, width |-> w, height |-> h]

\* canvas.rs:186-190  color = Rgba::default(); for index in 0..4 { color[index] = buf[pixel * 4 + index] }
LoadPixel(buf, pixel) ==
    LET c0 == IndexSet(Default, 0, buf[pixel * 4 + 0 + 1])
        c1 == IndexSet(c0, 1, buf[pixel * 4 + 1 + 1])
        c2 == IndexSet(c1, 2, buf[pixel * 4 + 2 + 1])
        c3 == IndexSet(c2, 3, buf[pixel * 4 + 3 + 1])
    IN  c3

\* canvas.rs:183-191  for pixel in 0..(buf.len() / 4) { ...; vector.push(color) }
LoadVector(buf) == [p \in 1..(Len(buf) \div 4) |-> LoadPixel(buf, p - 1)]

\* A load that installs the image even though the decoder failed.
load_keeps_going(h, dec) ==
    IF h.tag = "Handle"
    THEN [handle |-> Image(h.path, IF dec.ok THEN LoadVector(dec.buf) ELSE <<>>, 0, 0),
          ret |-> IF dec.ok THEN "Ok" ELSE "Err"]
    ELSE [handle |-> h, ret |-> "Ok"]

\* ImageHandle::load, dec being what File::open / PngDecoder::new / read_image
\* produce for the path: a failure (`?` returns it) or the bytes and dimensions.
load(h, dec) ==
    IF h.tag = "Handle"
    THEN IF dec.ok
         THEN [handle |-> Image(h.path, LoadVector(dec.buf), dec.width, dec.height),
               ret |-> "Ok"]
         ELSE [handle |-> h, ret |-> "Err"]
    ELSE [handle |-> h, ret |-> "Ok"]

\* ImageHandle::unload
unload(h) == Handle(h.path)

\* ImageHandle::image_ref
image_ref(h) ==
    IF h.tag = "Image"
    THEN Some([bytes |-> h.vector, width |-> h.width, height |-> h.height])
    ELSE None

\* ImageHandle::to_image
to_image(h) ==
    IF h.tag = "Image"
    THEN Some([bytes |-> h.vector, width |-> h.width, height |-> h.height])
    ELSE None

(***************************************************************************)
(* Bounds and the sets the inputs are drawn from.                          *)
(***************************************************************************)
MaxWidth == 2
MaxHeight == 2
MaxOff == 1
MaxLen == 3
MaxImgWidth == 2
MaxRect == 2
MaxOps == 2
MaxChars == 8
MaxPixels == 2

SeqsUpTo(S, n) == UNION {[1..k -> S] : k \in 0..n}

ChanVals == {0, 2, 255}
AlphaVals == {7, 255}
Colours == {new(r, g, b, a) : r \in ChanVals, g \in ChanVals, b \in ChanVals, a \in AlphaVals}
Props == {0, 1, 127, 128, 254, 255}
HexChars == {"0", "f", "A", "g"}
HexInputs == SeqsUpTo(HexChars, MaxChars)

Xs == (0 - MaxOff)..(MaxWidth + 1)
Ys == (0 - MaxOff)..(MaxHeight + 1)
RectDims == (0 - MaxRect)..MaxRect
PixelColours == {WHITE, new(255, 0, 2, 7)}
MonoBytes == {0, 128, 255}
Images == [bytes : SeqsUpTo(PixelColours, MaxLen), width : 0..MaxImgWidth]
MonoImages == [bytes : SeqsUpTo(MonoBytes, MaxLen), width : 0..MaxImgWidth]
MonoInks == {<<BLACK, WHITE>>, <<new(255, 0, 2, 7), BLACK>>}

\* The cells of a buffer handed to Canvas::new hold the previous frame: here
\* each holds a value of its own, none of them a colour that is drawn.
StaleBuffer(w, h) == [i \in 0..(w * h - 1) |-> <<i + 1, 0>>]

ColorIdle == [op |-> "none"]
HandleIdle == [tag |-> "none"]

(***************************************************************************)
(* SpecColor: one Rgba computation on drawn inputs.                        *)
(***************************************************************************)
InitColor ==
    /\ colorRes = ColorIdle
    /\ width = 0 /\ height = 0 /\ buffer = <<>> /\ call = [op |-> "none"] /\ ops = 0
    /\ given = <<0, 0>>
    /\ handle = HandleIdle /\ path0 = "" /\ decoded = <<>> /\ loadedOk = FALSE
    /\ handleRes = [op |-> "none"]

Blend ==
    /\ colorRes.op = "none"
    /\ \E black \in Colours, white \in Colours, proportion \in Props :
           colorRes' = [op |-> "blend", black |-> black, white |-> white,
                        proportion |-> proportion,
                        result |-> blend(black, white, proportion)]
    /\ UNCHANGED <<canvasVars, handleVars>>

TryFrom ==
    /\ colorRes.op = "none"
    /\ \E value \in HexInputs :
           colorRes' = [op |-> "try_from", value |-> value, result |-> try_from(value)]
    /\ UNCHANGED <<canvasVars, handleVars>>

NextColor == Blend \/ TryFrom

SpecColor == InitColor /\ [][NextColor]_vars

(***************************************************************************)
(* SpecDraw: Canvas::new, then one call, recorded with its arguments, the  *)
(* buffer before it and its effect.                                        *)
(***************************************************************************)
InitCanvas ==
    /\ \E w \in 1..MaxWidth, h \in 1..MaxHeight :
           /\ width = w
           /\ height = h
           /\ buffer = StaleBuffer(w, h)
           /\ given = <<w, h>>
    /\ call = [op |-> "new"]
    /\ ops = 0
    /\ colorRes = ColorIdle
    /\ handle = HandleIdle /\ path0 = "" /\ decoded = <<>> /\ loadedOk = FALSE
    /\ handleRes = [op |-> "none"]

CallFill ==
    /\ ops = 0
    /\ \E color \in PixelColours :
           LET st == fill(buffer, color)
           IN  /\ buffer' = st.buffer
               /\ call' = [op |-> "fill", color |-> color, pre |-> buffer,
                           writes |-> st.writes, panic |-> st.panic, comp |-> st.comp]
    /\ ops' = ops + 1
    /\ UNCHANGED <<width, height, given, colorVars, handleVars>>

CallDrawRectangle ==
    /\ ops = 0
    /\ \E x \in Xs, y \in Ys, rect_width \in RectDims, rect_height \in RectDims,
          color \in PixelColours :
           LET st == draw_rectangle(buffer, width, height, x, y, rect_width, rect_height, color)
           IN  /\ buffer' = st.buffer
               /\ call' = [op |-> "draw_rectangle", x |-> x, y |-> y,
                           rect_width |-> rect_width, rect_height |-> rect_height,
                           color |-> color, pre |-> buffer,
                           writes |-> st.writes, panic |-> st.panic, comp |-> st.comp]
    /\ ops' = ops + 1
    /\ UNCHANGED <<width, height, given, colorVars, handleVars>>

CallDrawImage ==
    /\ ops = 0
    /\ \E x \in Xs, y \in Ys, image \in Images :
           LET st == draw_image(buffer, width, height, x, y, image)
           IN  /\ buffer' = st.buffer
               /\ call' = [op |-> "draw_image", x |-> x, y |-> y, image |-> image,
                           pre |-> buffer,
                           writes |-> st.writes, panic |-> st.panic, comp |-> st.comp]
    /\ ops' = ops + 1
    /\ UNCHANGED <<width, height, given, colorVars, handleVars>>

CallDrawMonochromeImage ==
    /\ ops = 0
    /\ \E x \in Xs, y \in Ys, image \in MonoImages, inks \in MonoInks :
           LET st == draw_monochrome_image(buffer, width, height, x, y, image,
                                           inks[1], inks[2])
           IN  /\ buffer' = st.buffer
               /\ call' = [op |-> "draw_monochrome_image", x |-> x, y |-> y,
                           image |-> image, black |-> inks[1], white |-> inks[2],
                           pre |-> buffer,
                           writes |-> st.writes, panic |-> st.panic, comp |-> st.comp]
    /\ ops' = ops + 1
    /\ UNCHANGED <<width, height, given, colorVars, handleVars>>

NextDraw == CallFill \/ CallDrawRectangle \/ CallDrawImage \/ CallDrawMonochromeImage

SpecDraw == InitCanvas /\ [][NextDraw]_vars

(***************************************************************************)
(* SpecCanvas: Canvas::new, then up to MaxOps calls in any order.  Of each *)
(* call the state keeps the offsets it indexed the buffer with and what it *)
(* returned.  The origins lie left of, above, on and past each edge.       *)
(***************************************************************************)
SeqXs == {-1, 0, width - 1, width}
SeqYs == {-1, 0, height - 1, height}
SeqRectDims == {-1, 2}
SeqImages == {[bytes |-> <<WHITE, BLACK, WHITE>>, width |-> 2],
              [bytes |-> <<BLACK, WHITE>>, width |-> 0],
              [bytes |-> <<WHITE, WHITE>>, width |-> 1]}
SeqMonoImages == {[bytes |-> <<0, 128, 255>>, width |-> 2],
                  [bytes |-> <<255, 0>>, width |-> 0],
                  [bytes |-> <<128, 128>>, width |-> 1]}

Returned(name, st) ==
    [op |-> name, writes |-> st.writes, panic |-> st.panic, comp |-> st.comp]

Fill ==
    /\ ops < MaxOps
    /\ \E color \in {BLACK, WHITE} :
           LET st == fill(buffer, color)
           IN  buffer' = st.buffer /\ call' = Returned("fill", st)
    /\ ops' = ops + 1
    /\ UNCHANGED <<width, height, given, colorVars, handleVars>>

DrawRectangle ==
    /\ ops < MaxOps
    /\ \E x \in SeqXs, y \in SeqYs, rect_width \in SeqRectDims, rect_height \in SeqRectDims :
           LET st == draw_rectangle(buffer, width, height, x, y, rect_width, rect_height, WHITE)
           IN  buffer' = st.buffer /\ call' = Returned("draw_rectangle", st)
    /\ ops' = ops + 1
    /\ UNCHANGED <<width, height, given, colorVars, handleVars>>

DrawImage ==
    /\ ops < MaxOps
    /\ \E x \in SeqXs, y \in SeqYs, image \in SeqImages :
           LET st == draw_image(buffer, width, height, x, y, image)
           IN  buffer' = st.buffer /\ call' = Returned("draw_image", st)
    /\ ops' = ops + 1
    /\ UNCHANGED <<width, height, given, colorVars, handleVars>>

DrawMonochromeImage ==
    /\ ops < MaxOps
    /\ \E x \in SeqXs, y \in SeqYs, image \in SeqMonoImages :
           LET st == draw_monochrome_image(buffer, width, height, x, y, image, BLACK, WHITE)
           IN  buffer' = st.buffer /\ call' = Returned("draw_monochrome_image", st)
    /\ ops' = ops + 1
    /\ UNCHANGED <<width, height, given, colorVars, handleVars>>

NextCanvas == Fill \/ DrawRectangle \/ DrawImage \/ DrawMonochromeImage

SpecCanvas == InitCanvas /\ [][NextCanvas]_vars

(***************************************************************************)
(* SpecHandle: an ImageHandle created unloaded, then load, unload,         *)
(* image_ref and to_image in any order.  The decoder behind load may fail  *)
(* or deliver 4 bytes a pixel for any small image.                         *)
(***************************************************************************)
Paths == {"a.png", "b.png"}
ByteVals == {17, 34}
DecodeErrors == {[ok |-> FALSE, err |-> e] : e \in {"io", "decoding"}}
DecodeImages ==
    UNION {UNION {[ok : {TRUE}, buf : [1..(4 * w * h) -> ByteVals],
                   width : {w}, height : {h}] : h \in 1..(MaxPixels \div w)} :
               w \in 1..MaxPixels}
DecodeResults == DecodeErrors \cup DecodeImages
NotDecoded == [ok |-> FALSE, err |-> "not called"]

InitHandle ==
    /\ \E path \in Paths : handle = Handle(path) /\ path0 = path
    /\ decoded = NotDecoded
    /\ loadedOk = FALSE
    /\ handleRes = [op |-> "new"]
    /\ colorRes = ColorIdle
    /\ width = 0 /\ height = 0 /\ buffer = <<>> /\ call = [op |-> "none"] /\ ops = 0
    /\ given = <<0, 0>>

Live == handle.tag \in {"Handle", "Image"}

Load ==
    /\ Live
    /\ \E dec \in (IF handle.tag = "Handle" THEN DecodeResults ELSE {NotDecoded}) :
           LET r == load(handle, dec)
           IN  /\ handle' = r.handle
               /\ handleRes' = [op |-> "load", pre |-> handle, ret |-> r.ret]
               /\ loadedOk' = (loadedOk \/ r.ret = "Ok")
               /\ decoded' = IF handle.tag = "Handle" /\ dec.ok THEN dec ELSE decoded
    /\ UNCHANGED <<path0, colorVars, canvasVars>>

Unload ==
    /\ Live
    /\ handle' = unload(handle)
    /\ handleRes' = [op |-> "unload"]
    /\ loadedOk' = FALSE
    /\ decoded' = NotDecoded
    /\ UNCHANGED <<path0, colorVars, canvasVars>>

ImageRef ==
    /\ Live
    /\ handleRes' = [op |-> "image_ref", ret |-> image_ref(handle)]
    /\ UNCHANGED <<handle, path0, decoded, loadedOk, colorVars, canvasVars>>

\* to_image takes the handle by value: nothing can be called on it afterwards.
ToImage ==
    /\ Live
    /\ handleRes' = [op |-> "to_image", pre |-> handle, ret |-> to_image(handle)]
    /\ handle' = [tag |-> "Moved"]
    /\ UNCHANGED <<path0, decoded, loadedOk, colorVars, canvasVars>>

NextHandle == Load \/ Unload \/ ImageRef \/ ToImage

SpecHandle == InitHandle /\ [][NextHandle]_vars

(***************************************************************************)
(* The properties.                                                         *)
(***************************************************************************)
Rgb == {Red, Green, Blue}

\* C5: black.blend(white, 0) has black's red, green and blue, black.blend(white, 255)
\* has white's, and at every proportion the result keeps black's alpha.
C5_BlendBoundary ==
    colorRes.op = "blend" =>
        /\ colorRes.proportion = 0 =>
               \A c \in Rgb : Index(colorRes.result, c) = Index(colorRes.black, c)
        /\ colorRes.proportion = 255 =>
               \A c \in Rgb : Index(colorRes.result, c) = Index(colorRes.white, c)
        /\ Index(colorRes.result, Alpha) = Index(colorRes.black, Alpha)

\* C6: opaque black blended with opaque white at proportion 128 has
\* red = green = blue = 128.
C6_BlendMidpoint ==
    (/\ colorRes.op = "blend"
     /\ colorRes.black = new(0, 0, 0, 255)
     /\ colorRes.white = new(255, 255, 255, 255)
     /\ colorRes.proportion = 128)
    => \A c \in Rgb : Index(colorRes.result, c) = 128

HexDigits == {"0", "1", "2", "3", "4", "5", "6", "7", "8", "9",
              "a", "b", "c", "d", "e", "f", "A", "B", "C", "D", "E", "F"}

\* The i-th two-character pair of the input (0: red .. 3: alpha), and the
\* pairs that are there in full and hold a character that is no hex digit.
HexPair(value, i) == <<value[2 * i + 1], value[2 * i + 2]>>
BadPairs(value) ==
    {i \in 0..3 : /\ 2 * i + 2 <= Len(value)
                  /\ \E k \in 1..2 : HexPair(value, i)[k] \notin HexDigits}
FirstOf(S) == CHOOSE i \in S : \A j \in S : i <= j

\* C7: a parse that consumes a pair holding a non-hex character fails with
\* InvalidStr carrying the first such pair, the alpha pair included: alpha is
\* 255 by default only when the alpha pair is not there.
C7_InvalidPairIsError ==
    colorRes.op = "try_from" =>
        /\ BadPairs(colorRes.value) # {} =>
               colorRes.result =
                   Err([kind |-> "InvalidStr",
                        s |-> HexPair(colorRes.value, FirstOf(BadPairs(colorRes.value)))])
        /\ (colorRes.result.ok /\ Len(colorRes.value) >= 8) =>
               Some(Index(colorRes.result.val, Alpha)) = hex_code_to_u8(HexPair(colorRes.value, 3))

\* The surface coordinate source pixel i (0-based, row-major) of an image iw
\* wide maps to when the image is drawn at (x, y), and whether it is on the surface.
PixelX(x, i, iw) == x + (i % iw)
PixelY(y, i, iw) == y + (i \div iw)
OnSurface(sx, sy) == 0 <= sx /\ sx < width /\ 0 <= sy /\ sy < height
PixelOn(i) ==
    OnSurface(PixelX(call.x, i, call.image.width), PixelY(call.y, i, call.image.width))
PixelOffset(i) ==
    PixelY(call.y, i, call.image.width) * width + PixelX(call.x, i, call.image.width)
Pixels == 0..(Len(call.image.bytes) - 1)

\* C1: a draw_monochrome_image that does not return None returns Partial exactly
\* when some source pixel maps off the surface (left of or above it as well as
\* right of or below it), and Complete only when every pixel was written.
C1_PartialIffClipped ==
    (call.op = "draw_monochrome_image" /\ call.comp # "None" /\ call.image.width >= 1) =>
        /\ (call.comp = "Partial") <=> (\E i \in Pixels : ~PixelOn(i))
        /\ (call.comp = "Complete") =>
               \A i \in Pixels :
                   /\ PixelOffset(i) \in call.writes
                   /\ buffer[PixelOffset(i)] =
                          RgbaToU32(MonoColor(call.image.bytes[i + 1], call.black, call.white))

\* C2: a draw_monochrome_image whose origin has x >= width or y >= height
\* returns None and leaves every buffer cell as it was.
C2_OriginPastEdgeIsNone ==
    (call.op = "draw_monochrome_image" /\ (call.x >= width \/ call.y >= height)) =>
        (call.comp = "None" /\ buffer = call.pre)

\* The cells of the rectangle of the last draw_rectangle that lie on the surface.
RectCells ==
    {cy * width + cx : cx \in {c \in 0..(width - 1) :
                                   call.x <= c /\ c < call.x + call.rect_width},
                       cy \in {c \in 0..(height - 1) :
                                   call.y <= c /\ c < call.y + call.rect_height}}

\* C3: draw_rectangle sets exactly the on-surface cells of
\* [x, x+rect_width) x [y, y+rect_height) to color (none when rect_width <= 0 or
\* rect_height <= 0), leaves every other cell unchanged, and never fails.
C3_RectangleCells ==
    call.op = "draw_rectangle" =>
        /\ ~call.panic
        /\ (call.rect_width <= 0 \/ call.rect_height <= 0) => RectCells = {}
        /\ \A i \in DOMAIN buffer :
               buffer[i] = IF i \in RectCells THEN RgbaToU32(call.color) ELSE call.pre[i]

\* The source pixels of the last draw_image that map to the cell at offset idx.
SourcesOf(idx) == {i \in Pixels : PixelOn(i) /\ PixelOffset(i) = idx}

\* C4: for an image at least 1 wide, draw_image writes source pixel i to the cell
\* at offset sy*width+sx, (sx, sy) = (x + i mod image_width, y + i div image_width),
\* exactly when (sx, sy) is on the surface; the cell then holds the source colour,
\* and a cell no on-surface pixel maps to is unchanged.
C4_DrawImageMapping ==
    (call.op = "draw_image" /\ call.image.width >= 1) =>
        /\ ~call.panic
        /\ call.writes = {idx \in DOMAIN buffer : SourcesOf(idx) # {}}
        /\ \A idx \in DOMAIN buffer :
               /\ \A i \in SourcesOf(idx) : buffer[idx] = RgbaToU32(call.image.bytes[i + 1])
               /\ SourcesOf(idx) = {} => buffer[idx] = call.pre[idx]

\* A draw_image of a three-pixel image two wide, its origin left of the surface:
\* some pixels are written and some are clipped.
C4_Witness ==
    /\ call.op = "draw_image"
    /\ call.image.width = 2
    /\ Len(call.image.bytes) = 3
    /\ call.x < 0
    /\ call.writes # {}
    /\ Cardinality(call.writes) < 3
    /\ \E i \in call.writes : buffer[i] # call.pre[i]

\* C9: after Canvas::new and any calls of fill, draw_rectangle, draw_image and
\* draw_monochrome_image, the buffer is width*height long, width and height are
\* the values given at construction, and no call indexed the buffer outside
\* [0, width*height).
C9_BufferInvariant ==
    /\ DOMAIN buffer = 0..(width * height - 1)
    /\ <<width, height>> = given
    /\ call.op # "new" => (~call.panic /\ call.writes \subseteq 0..(width * height - 1))

\* A second or later call that drew part of an image and clipped the rest.
C9_Witness ==
    /\ ops >= 2
    /\ call.op = "draw_monochrome_image"
    /\ call.comp = "Partial"
    /\ call.writes # {}

\* C8: the handle is an Image exactly when a load has succeeded and no unload
\* followed; a failed load leaves it unloaded, a load of a loaded handle
\* succeeds and changes nothing, unload leaves it unloaded, the path never
\* changes, and image_ref / to_image yield an image exactly when it is loaded.
C8_HandleLifecycle ==
    /\ Live => ((handle.tag = "Image") <=> loadedOk) /\ handle.path = path0
    /\ handleRes.op = "load" =>
           /\ handleRes.ret = "Err" => (handle = handleRes.pre /\ handle.tag = "Handle")
           /\ handleRes.pre.tag = "Image" => (handleRes.ret = "Ok" /\ handle = handleRes.pre)
           /\ (handleRes.pre.tag = "Handle" /\ handleRes.ret = "Ok") => handle.tag = "Image"
    /\ handleRes.op = "unload" => handle.tag = "Handle"
    /\ handleRes.op = "image_ref" =>
           /\ IsSome(handleRes.ret) <=> handle.tag = "Image"
           /\ IsSome(handleRes.ret) => Unwrap(handleRes.ret).bytes = handle.vector
    /\ handleRes.op = "to_image" =>
           /\ IsSome(handleRes.ret) <=> handleRes.pre.tag = "Image"
           /\ IsSome(handleRes.ret) => Unwrap(handleRes.ret).bytes = handleRes.pre.vector

\* A load of a handle that an earlier load had already made an Image.
C8_Witness ==
    /\ handleRes.op = "load"
    /\ handleRes.pre.tag = "Image"
    /\ handleRes.ret = "Ok"
    /\ handle.tag = "Image"
    /\ Len(handle.vector) = 2

\* C10: after a successful load pixel i has red = decoded byte 4i, green = byte
\* 4i+1, blue = byte 4i+2 and alpha = byte 4i+3, and there are as many pixels as
\* a quarter of the decoded bytes.
C10_LoadedChannels ==
    (handle.tag = "Image" /\ decoded.ok) =>
        /\ Len(handle.vector) = Len(decoded.buf) \div 4
        /\ \A i \in 0..(Len(handle.vector) - 1) :
               /\ Index(handle.vector[i + 1], Red) = decoded.buf[4 * i + 1]
               /\ Index(handle.vector[i + 1], Green) = decoded.buf[4 * i + 2]
               /\ Index(handle.vector[i + 1], Blue) = decoded.buf[4 * i + 3]
               /\ Index(handle.vector[i + 1], Alpha) = decoded.buf[4 * i + 4]

====
